---- MODULE Spec2Model ----
(***************************************************************************)
(* Model of the pem package: the PEM object classes and the regular-       *)
(* expression tokenizer of pem/_core.py, and the key / certificate / chain *)
(* classifier that consumes the parsed objects.                            *)
(*                                                                         *)
(* A text is a sequence of tokens.  Every token stands for a fixed run of  *)
(* characters ("-----", "BEGIN ", a label, one line feed, ...); the        *)
(* literals of the pattern are made of whole tokens, so matching token by  *)
(* token is matching character by character on the texts built from them.  *)
(***************************************************************************)
EXTENDS Integers, Sequences, FiniteSets, TLC

VARIABLES pieces, pem_str, pc, result, raised, heap, pemObjects, outcome

vars == <<pieces, pem_str, pc, result, raised, heap, pemObjects, outcome>>

\* ------------------------------------------------------------------ bounds
MaxPieces == 3
MaxHeap == 3
MaxObjects == 4

\* ------------------------------------------------------------------ tokens
LF == "\n"
CR == "\r"
Dashes == "-----"
BeginWord == "BEGIN "
EndWord == "END "

UnknownLabels == {"FOOBAR"}

\* number of characters a token stands for
CharLen(tok) ==
    CASE tok = Dashes -> 5
      [] tok = BeginWord -> 6
      [] tok = EndWord -> 4
      [] tok = "CERTIFICATE" -> 11
      [] tok = "RSA PRIVATE KEY" -> 15
      [] tok = "DH PARAMETERS" -> 13
      [] tok = "FOOBAR" -> 6
      [] OTHER -> 1

RECURSIVE TextLen(_)
TextLen(s) == IF s = <<>> THEN 0 ELSE CharLen(Head(s)) + TextLen(Tail(s))

RECURSIVE Flatten(_)
Flatten(ss) == IF ss = <<>> THEN <<>> ELSE Head(ss) \o Flatten(Tail(ss))

Min(S) == CHOOSE n \in S : \A m \in S : n <= m
Max(S) == CHOOSE n \in S : \A m \in S : n >= m

\* s has the tokens of lit at positions i .. i + Len(lit) - 1
HasAt(s, i, lit) ==
    /\ i >= 1
    /\ i + Len(lit) - 1 <= Len(s)
    /\ \A k \in 1..Len(lit) : s[i + k - 1] = lit[k]

\* ----------------------------------------------------------------- classes
Classes == {"Certificate", "Key", "RSAPrivateKey", "DHParameters"}

SuperclassesFlat(cls) == {cls, "_Base"}

\* class Key(_Base), class RSAPrivateKey(Key), ...
Superclasses(cls) ==
    IF cls = "RSAPrivateKey" THEN {"RSAPrivateKey", "Key", "_Base"}
    ELSE {cls, "_Base"}

IsInstance(obj, cls) == cls \in Superclasses(obj.cls)

\* _Base.__init__ / __str__
NewObject(cls, text) == [cls |-> cls, pem_str |-> text]
Str(obj) == obj.pem_str

PEM_TO_CLASS ==
    [l \in {"CERTIFICATE", "RSA PRIVATE KEY", "DH PARAMETERS"} |->
        CASE l = "CERTIFICATE" -> "Certificate"
          [] l = "RSA PRIVATE KEY" -> "RSAPrivateKey"
          [] l = "DH PARAMETERS" -> "DHParameters"]

\* -------------------------------------------------------------- the pattern
AnyLabel == DOMAIN PEM_TO_CLASS \cup UnknownLabels

RegexAnyLabel == AnyLabel

\* '|'.join(_PEM_TO_CLASS.keys())
RegexLabels == DOMAIN PEM_TO_CLASS

\* -----BEGIN (..)-----\n
BeginLine(l) == <<Dashes, BeginWord, l, Dashes, LF>>

AnyEndLabel(l) == RegexLabels

\* \1 : the END label is the text captured by group 1
BackRef(l) == {l}

\* \n-----END \1-----
EndLine(l) == <<LF, Dashes, EndWord, l, Dashes>>

GreedyBody(S) == Max(S)

\* .+? : the shortest body for which the rest of the pattern matches
LazyBody(S) == Min(S)

NoOptionalNewline(s, e) == e

\* \n? : one line feed after the END line is consumed when present
OptionalNewline(s, e) == IF e <= Len(s) /\ s[e] = LF THEN e + 1 ELSE e

EndLineStartsEmptyBody(s, i, l) ==
    { j \in (i + Len(BeginLine(l)))..Len(s) :
        \E l2 \in BackRef(l) : HasAt(s, j, EndLine(l2)) }

\* positions at which the END line can start for a match begun at i with
\* label l: at least one body character (.+) after the BEGIN line
EndLineStarts(s, i, l) ==
    { j \in (i + Len(BeginLine(l)) + 1)..Len(s) :
        \E l2 \in BackRef(l) : HasAt(s, j, EndLine(l2)) }

\* the match of _PEM_RE anchored at position i with label l: 0 when there
\* is none, otherwise the position just past the match
MatchEnd(s, i, l) ==
    IF HasAt(s, i, BeginLine(l))
    THEN LET ends == EndLineStarts(s, i, l)
         IN IF ends = {} THEN 0
            ELSE OptionalNewline(s, LazyBody(ends) + Len(EndLine(l)))
    ELSE 0

\* the alternation of group 1: the labels are tried in turn
MatchAt(s, i) ==
    LET found == { m \in { [label |-> l, start |-> i, end |-> MatchEnd(s, i, l)] :
                             l \in RegexLabels } : m.end # 0 }
    IN IF found = {} THEN [label |-> "", start |-> i, end |-> 0]
       ELSE CHOOSE m \in found : TRUE

NextPosOverlapping(m) == m.start + 1

\* finditer resumes the scan at the end of the previous match
NextPos(m) == m.end

\* _PEM_RE.finditer(pem_str): non-overlapping matches, left to right
RECURSIVE FindIter(_, _)
FindIter(s, i) ==
    IF i > Len(s) THEN <<>>
    ELSE LET m == MatchAt(s, i)
         IN IF m.end = 0 THEN FindIter(s, i + 1)
            ELSE <<m>> \o FindIter(s, NextPos(m))

Group0(s, m) == SubSeq(s, m.start, m.end - 1)

\* _PEM_TO_CLASS[match.group(1)] raises KeyError for a label that is not a
\* key of the mapping
Raises(ms) == \E k \in 1..Len(ms) : ms[k].label \notin DOMAIN PEM_TO_CLASS

\* the list comprehension of parse: one object per match
Objects(s, ms) ==
    [k \in 1..Len(ms) |->
        NewObject(PEM_TO_CLASS[ms[k].label], Group0(s, ms[k]))]

\* parse(pem_str) when nothing is raised
ParseList(s) == Objects(s, FindIter(s, 1))

\* ------------------------------------------------------------ input texts
Eol(crlf) == IF crlf THEN <<CR, LF>> ELSE <<LF>>

RECURSIVE JoinLines(_, _)
JoinLines(lines, eol) ==
    IF Len(lines) = 1 THEN Head(lines)
    ELSE Head(lines) \o eol \o JoinLines(Tail(lines), eol)

TwoLineBody == << <<"x">>, <<"y">> >>
OneLineBody == << <<"y", "x">> >>

Block(bl, el, body, crlf, trailing) ==
    <<Dashes, BeginWord, bl, Dashes>> \o Eol(crlf) \o JoinLines(body, Eol(crlf))
      \o Eol(crlf) \o <<Dashes, EndWord, el, Dashes>>
      \o (IF trailing THEN Eol(crlf) ELSE <<>>)

\* blocks with the same label on both lines and a non-empty body
WellFormed(labels, crlfs) ==
    { Block(l, l, b, c, t) :
        l \in labels, b \in {OneLineBody, TwoLineBody}, c \in crlfs,
        t \in BOOLEAN }

\* text that is not a block: END label differing from the BEGIN label, a
\* BEGIN line alone, a block with an empty body, a stray character
Malformed ==
    { Block("CERTIFICATE", "RSA PRIVATE KEY", OneLineBody, FALSE, FALSE),
      BeginLine("CERTIFICATE"),
      BeginLine("CERTIFICATE") \o <<LF, Dashes, EndWord, "CERTIFICATE", Dashes>>,
      <<"x">> }

\* the texts the inputs are assembled from
Pieces ==
    { Block(l, l, TwoLineBody, FALSE, t) : l \in AnyLabel, t \in BOOLEAN }
      \cup { Block("CERTIFICATE", "CERTIFICATE", OneLineBody, FALSE, TRUE) }
      \cup { Block("RSA PRIVATE KEY", "RSA PRIVATE KEY", TwoLineBody, TRUE, TRUE) }
      \cup Malformed

RECURSIVE SeqsUpTo(_, _)
SeqsUpTo(n, S) ==
    IF n = 0 THEN {<<>>}
    ELSE LET shorter == SeqsUpTo(n - 1, S)
         IN shorter \cup { Append(q, e) : q \in { r \in shorter : Len(r) = n - 1 }, e \in S }

\* ------------------------------------------------------------------ parse
InitIdle ==
    /\ pieces = <<>>
    /\ pem_str = <<>>
    /\ result = <<>>
    /\ raised = "none"
    /\ heap = <<>>
    /\ pemObjects = <<>>
    /\ outcome = [status |-> "none"]

Init ==
    /\ pc = "input"
    /\ pieces \in SeqsUpTo(MaxPieces, Pieces)
    /\ pem_str = Flatten(pieces)
    /\ result = <<>>
    /\ raised = "none"
    /\ heap = <<>>
    /\ pemObjects = <<>>
    /\ outcome = [status |-> "none"]

\* parse(pem_str)
Parse ==
    /\ pc = "input"
    /\ pc' = "parsed"
    /\ LET ms == FindIter(pem_str, 1)
       IN IF Raises(ms)
          THEN raised' = "KeyError" /\ result' = <<>>
          ELSE raised' = "none" /\ result' = Objects(pem_str, ms)
    /\ UNCHANGED <<pieces, pem_str, heap, pemObjects, outcome>>

Next == Parse

Spec == Init /\ [][Next]_vars

\* --------------------------------------------------- equality of objects
ObjTexts == { <<"x">>, <<"y">> }

\* _Base defines neither __eq__ nor __hash__: an object is compared and
\* hashed by identity.  An object is referred to by its index in heap.
ObjEq(i, j) == i = j
ObjHash(i) == i

InitObjects ==
    /\ InitIdle
    /\ pc = "objects"

\* Certificate(text), Key(text), RSAPrivateKey(text), DHParameters(text)
Construct(cls, text) ==
    /\ pc = "objects"
    /\ Len(heap) < MaxHeap
    /\ heap' = Append(heap, NewObject(cls, text))
    /\ UNCHANGED <<pieces, pem_str, pc, result, raised, pemObjects, outcome>>

NextObjects == \E cls \in Classes, text \in ObjTexts : Construct(cls, text)

SpecObjects == InitObjects /\ [][NextObjects]_vars

\* ------------------------------------------------------------- classifier
\* the public key material of a key or a certificate, as the external
\* primitive reports it: the first token of the text
PublicKey(obj) == obj.pem_str[1]

Matches(cert, key) == PublicKey(cert) = PublicKey(key)

IsKey(obj) == IsInstance(obj, "Key")
IsCertificate(obj) == IsInstance(obj, "Certificate")
IsDHParameters(obj) == IsInstance(obj, "DHParameters")

NoObject == [cls |-> "none", pem_str |-> <<>>]

Failure(error, detail) ==
    [status |-> "error", error |-> error, detail |-> detail,
     key |-> NoObject, certificate |-> NoObject, chain |-> <<>>, dh |-> <<>>]

RemoveAt(q, i) == SubSeq(q, 1, i - 1) \o SubSeq(q, i + 1, Len(q))

\* classify(objects): key selection, certificate partition, match, chain
Classify(objs) ==
    LET keys == SelectSeq(objs, IsKey)
        certs == SelectSeq(objs, IsCertificate)
        matching == { i \in 1..Len(certs) : Matches(certs[i], keys[1]) }
    IN IF Len(keys) = 0 THEN Failure("NoKey", "")
       ELSE IF Len(keys) > 1 THEN Failure("MultipleKeys", "")
       ELSE IF Len(certs) = 0 THEN Failure("NoCertificate", "")
       ELSE IF matching = {} THEN Failure("NoMatchingCertificate", PublicKey(keys[1]))
       ELSE [status |-> "ok", error |-> "", detail |-> "",
             key |-> keys[1],
             certificate |-> certs[Min(matching)],
             chain |-> RemoveAt(certs, Min(matching)),
             dh |-> SelectSeq(objs, IsDHParameters)]

\* the objects handed to the classifier
ClassifierObjects ==
    { NewObject("RSAPrivateKey", <<"k1", "s1">>),
      NewObject("RSAPrivateKey", <<"k2", "s1">>),
      NewObject("Key", <<"k1", "s1">>),
      NewObject("DHParameters", <<"k1", "s1">>),
      NewObject("Certificate", <<"k1", "s1">>),
      NewObject("Certificate", <<"k1", "s2">>),
      NewObject("Certificate", <<"k2", "s1">>) }

InitClassify ==
    /\ pc = "collected"
    /\ pemObjects \in SeqsUpTo(MaxObjects, ClassifierObjects)
    /\ pieces = <<>>
    /\ pem_str = <<>>
    /\ result = <<>>
    /\ raised = "none"
    /\ heap = <<>>
    /\ outcome = [status |-> "none"]

DoClassify ==
    /\ pc = "collected"
    /\ pc' = "classified"
    /\ outcome' = Classify(pemObjects)
    /\ UNCHANGED <<pieces, pem_str, result, raised, heap, pemObjects>>

NextClassify == DoClassify

SpecClassify == InitClassify /\ [][NextClassify]_vars

\* ------------------------------------------------------- claims on parse
Registered == {"CERTIFICATE", "RSA PRIVATE KEY", "DH PARAMETERS"}

ClassOfLabel(l) ==
    CASE l = "CERTIFICATE" -> "Certificate"
      [] l = "RSA PRIVATE KEY" -> "RSAPrivateKey"
      [] l = "DH PARAMETERS" -> "DHParameters"
      [] OTHER -> "none"

LabelOf(block) == block[3]

Texts(objs) == [k \in 1..Len(objs) |-> Str(objs[k])]

RECURSIVE SumTextLen(_)
SumTextLen(ts) == IF ts = <<>> THEN 0 ELSE TextLen(Head(ts)) + SumTextLen(Tail(ts))

\* text.replace("\n", "\r\n")
RECURSIVE ReplaceLF(_)
ReplaceLF(s) ==
    IF s = <<>> THEN <<>>
    ELSE (IF Head(s) = LF THEN <<CR, LF>> ELSE <<Head(s)>>) \o ReplaceLF(Tail(s))

EndsWith(s, lit) == HasAt(s, Len(s) - Len(lit) + 1, lit)

Contains(s, tok) == \E k \in 1..Len(s) : s[k] = tok

\* C1: a single well-formed block with a registered label, a non-empty body
\* and \n line endings, with or without a trailing newline, parses to exactly
\* one object whose text is the input, character for character.
RoundTripSingleBlock ==
    (pc = "parsed" /\ pem_str \in WellFormed(Registered, {FALSE}))
        => /\ raised = "none"
           /\ Len(result) = 1
           /\ Str(result[1]) = pem_str

RoundTripWitness ==
    /\ pc = "parsed"
    /\ pem_str \in WellFormed(Registered, {FALSE})
    /\ pem_str[Len(pem_str)] = LF
    /\ Len(result) = 1
    /\ Str(result[1])[Len(pem_str)] = LF

\* C2: a well-formed block in which every \n is replaced by \r\n parses to
\* exactly one object, of the same kind as for the \n form, whose text is the
\* \r\n input.
CrlfAccepted ==
    \A b \in WellFormed(Registered, {FALSE}) :
        (pc = "parsed" /\ pem_str = ReplaceLF(b))
            => /\ Len(result) = 1
               /\ result[1].cls = ParseList(b)[1].cls
               /\ Str(result[1]) = pem_str

\* C3: N well-formed blocks with registered labels, concatenated with nothing
\* in between, parse to N objects; the i-th has the class registered for the
\* i-th label and the i-th block as its text, so the texts concatenate to the
\* input.
OrderAndCountPreserved ==
    (pc = "parsed" /\ \A i \in 1..Len(pieces) :
                         pieces[i] \in WellFormed(Registered, {FALSE}))
        => /\ raised = "none"
           /\ Len(result) = Len(pieces)
           /\ \A i \in 1..Len(pieces) :
                 /\ result[i].cls = ClassOfLabel(LabelOf(pieces[i]))
                 /\ Str(result[i]) = pieces[i]
           /\ Flatten(Texts(result)) = pem_str

OrderAndCountWitness ==
    /\ pc = "parsed"
    /\ Len(pieces) = 3
    /\ \A i \in 1..3 : pieces[i] \in WellFormed(Registered, {FALSE})
    /\ LabelOf(pieces[1]) = "RSA PRIVATE KEY"
    /\ LabelOf(pieces[2]) = "CERTIFICATE"
    /\ LabelOf(pieces[3]) = "DH PARAMETERS"
    /\ pieces[2][Len(pieces[2])] # LF
    /\ Len(result) = 3

\* C5: a well-formed block with an unregistered label between two well-formed
\* CERTIFICATE blocks is skipped: parse returns the two Certificate objects in
\* source order and nothing of the unregistered block is in their texts.
UnknownLabelSkipped ==
    (/\ pc = "parsed"
     /\ Len(pieces) = 3
     /\ pieces[1] \in WellFormed({"CERTIFICATE"}, {FALSE})
     /\ pieces[2] \in WellFormed(UnknownLabels, BOOLEAN)
     /\ pieces[3] \in WellFormed({"CERTIFICATE"}, {FALSE}))
        => /\ raised = "none"
           /\ result = << [cls |-> "Certificate", pem_str |-> pieces[1]],
                          [cls |-> "Certificate", pem_str |-> pieces[3]] >>
           /\ \A k \in 1..Len(result) : ~Contains(Str(result[k]), "FOOBAR")

UnknownLabelWitness ==
    /\ pc = "parsed"
    /\ Len(pieces) = 3
    /\ pieces[1] \in WellFormed({"CERTIFICATE"}, {FALSE})
    /\ pieces[2] \in WellFormed(UnknownLabels, {FALSE})
    /\ pieces[3] \in WellFormed({"CERTIFICATE"}, {FALSE})
    /\ pieces[1] # pieces[3]
    /\ Len(result) = 2

\* a BEGIN line and a later END line with the same registered label and at
\* least one character between the two lines
HasCompleteBlock(s) ==
    \E l \in Registered, i \in 1..Len(s) :
        /\ HasAt(s, i, <<Dashes, BeginWord, l, Dashes, LF>>)
        /\ \E j \in (i + 6)..Len(s) :
              HasAt(s, j, <<LF, Dashes, EndWord, l, Dashes>>)

\* C6: parse returns a list for every input and raises nothing, and the list
\* is empty when the input has no complete block with a registered label.
ParseTotal ==
    pc = "parsed"
        => /\ raised = "none"
           /\ (~HasCompleteBlock(pem_str) => result = <<>>)

ParseTotalWitness ==
    /\ pc = "parsed"
    /\ Contains(pem_str, BeginWord)
    /\ Contains(pem_str, EndWord)
    /\ ~HasCompleteBlock(pem_str)
    /\ raised = "none"
    /\ result = <<>>

\* C9: the text of every parsed object begins with -----BEGIN L----- and ends
\* with -----END L-----, followed by at most one newline, for one registered
\* label L, and the object has the class registered for L.
EnvelopeInvariant ==
    pc = "parsed"
        => \A k \in 1..Len(result) :
              \E l \in Registered :
                  /\ HasAt(Str(result[k]), 1, <<Dashes, BeginWord, l, Dashes>>)
                  /\ \/ EndsWith(Str(result[k]), <<Dashes, EndWord, l, Dashes>>)
                     \/ EndsWith(Str(result[k]), <<Dashes, EndWord, l, Dashes, LF>>)
                  /\ result[k].cls = ClassOfLabel(l)

EnvelopeWitness ==
    /\ pc = "parsed"
    /\ \E k \in 1..Len(result) :
          /\ result[k].cls = "Certificate"
          /\ Contains(Str(result[k]), "RSA PRIVATE KEY")

\* the texts occur in s one after the other, without overlap, from position
\* from on (taking the leftmost occurrence each time loses no embedding)
RECURSIVE Embeds(_, _, _)
Embeds(ts, s, from) ==
    IF ts = <<>> THEN TRUE
    ELSE LET occ == { i \in from..Len(s) : HasAt(s, i, Head(ts)) }
         IN /\ occ # {}
            /\ Embeds(Tail(ts), s, Min(occ) + Len(Head(ts)))

\* C10: the texts of the parsed objects are non-overlapping substrings of the
\* input at strictly increasing positions, in the order returned, and their
\* total length is at most the length of the input.
NonOverlappingInOrder ==
    pc = "parsed"
        => /\ \A k \in 1..Len(result) : Len(Str(result[k])) > 0
           /\ Embeds(Texts(result), pem_str, 1)
           /\ SumTextLen(Texts(result)) <= TextLen(pem_str)

NonOverlappingWitness ==
    /\ pc = "parsed"
    /\ Len(result) = 2
    /\ Contains(Str(result[1]), BeginWord)
    /\ SumTextLen(Texts(result)) < TextLen(pem_str)

\* ----------------------------------------------- claims on the objects
\* C4: two objects are equal exactly when they have the same class and the
\* same text, and equal objects have equal hashes.
EqualityByContent ==
    \A i \in 1..Len(heap), j \in 1..Len(heap) :
        /\ ObjEq(i, j) <=> (heap[i].cls = heap[j].cls /\ heap[i].pem_str = heap[j].pem_str)
        /\ ObjEq(i, j) => ObjHash(i) = ObjHash(j)

\* --------------------------------------------- claims on the classifier
KeyClasses == {"Key", "RSAPrivateKey"}

KeyPositions(objs) == { i \in 1..Len(objs) : objs[i].cls \in KeyClasses }
CertPositions(objs) == { i \in 1..Len(objs) : objs[i].cls = "Certificate" }
MatchingPositions(objs, key) ==
    { i \in CertPositions(objs) : objs[i].pem_str[1] = key.pem_str[1] }

\* the objects of q at the positions of P, in the order of q
RECURSIVE Restrict(_, _, _)
Restrict(q, P, i) ==
    IF i > Len(q) THEN <<>>
    ELSE (IF i \in P THEN <<q[i]>> ELSE <<>>) \o Restrict(q, P, i + 1)

Swap(q, i, j) ==
    [k \in 1..Len(q) |-> IF k = i THEN q[j] ELSE IF k = j THEN q[i] ELSE q[k]]

\* C7: the classifier fails with NoKey without a key, with MultipleKeys with
\* more than one, otherwise with NoCertificate without a certificate,
\* otherwise with NoMatchingCertificate naming the key when no certificate
\* matches it; a failure carries no key, certificate or chain.
ClassifierErrors ==
    pc = "classified" =>
        LET ks == KeyPositions(pemObjects)
            cs == CertPositions(pemObjects)
            key == pemObjects[CHOOSE i \in ks : TRUE]
        IN /\ ks = {} => (outcome.status = "error" /\ outcome.error = "NoKey")
           /\ Cardinality(ks) > 1
                => (outcome.status = "error" /\ outcome.error = "MultipleKeys")
           /\ (Cardinality(ks) = 1 /\ cs = {})
                => (outcome.status = "error" /\ outcome.error = "NoCertificate")
           /\ (Cardinality(ks) = 1 /\ cs # {} /\ MatchingPositions(pemObjects, key) = {})
                => /\ outcome.status = "error"
                   /\ outcome.error = "NoMatchingCertificate"
                   /\ outcome.detail = key.pem_str[1]
           /\ outcome.status = "error"
                => /\ outcome.key = NoObject
                   /\ outcome.certificate = NoObject
                   /\ outcome.chain = <<>>

ClassifierErrorsWitness ==
    /\ pc = "classified"
    /\ Cardinality(KeyPositions(pemObjects)) = 1
    /\ Cardinality(CertPositions(pemObjects)) = 2
    /\ outcome.status = "error"
    /\ outcome.error = "NoMatchingCertificate"
    /\ outcome.detail = "k2"

\* C8: with exactly one key and a certificate matching it, the classifier
\* returns the key, the first matching certificate and, as chain, the other
\* certificates in input order; exchanging two inputs keeps the key, and the
\* leaf when only one certificate matches; no DHParameters object is the key,
\* the leaf or in the chain.
ClassifierRoles ==
    pc = "classified" =>
        LET ks == KeyPositions(pemObjects)
            key == pemObjects[CHOOSE i \in ks : TRUE]
            ms == MatchingPositions(pemObjects, key)
        IN (Cardinality(ks) = 1 /\ ms # {})
             => /\ outcome.status = "ok"
                /\ outcome.key = key
                /\ outcome.certificate = pemObjects[Min(ms)]
                /\ outcome.chain =
                     Restrict(pemObjects, CertPositions(pemObjects) \ {Min(ms)}, 1)
                /\ \A i \in 1..Len(pemObjects), j \in 1..Len(pemObjects) :
                      /\ Classify(Swap(pemObjects, i, j)).key = outcome.key
                      /\ Cardinality(ms) = 1
                           => Classify(Swap(pemObjects, i, j)).certificate
                                = outcome.certificate
                /\ outcome.key.cls # "DHParameters"
                /\ outcome.certificate.cls # "DHParameters"
                /\ \A k \in 1..Len(outcome.chain) :
                      outcome.chain[k].cls # "DHParameters"

ClassifierRolesWitness ==
    /\ pc = "classified"
    /\ Len(pemObjects) = 4
    /\ pemObjects[1].cls = "Certificate"
    /\ pemObjects[4].cls = "RSAPrivateKey"
    /\ \E i \in 1..4 : pemObjects[i].cls = "DHParameters"
    /\ outcome.status = "ok"
    /\ outcome.certificate = pemObjects[3]
    /\ outcome.chain = <<pemObjects[1]>>

====
